---------------------------- MODULE Spec2Model ----------------------------
(***************************************************************************)
(* Model of the TechTrain-NLP notebooks:                                   *)
(*   2a_Masked_Language_Modeling     predict_word                          *)
(*   2b_Next_Sentence_Prediction     predict_nsp                           *)
(*   2c_Fine_Tuning_Sentence_Classification   baseline / train / evaluate  *)
(* Texts are sequences of one-character strings.  Token ids are positions  *)
(* in Vocab.  Logits are small naturals; exp is a fixed-point table, and   *)
(* probabilities are integers in units of 10^-4 where the code rounds to 4 *)
(* decimals, exact fractions (num, den) where it does not.                 *)
(***************************************************************************)
EXTENDS Integers, Sequences, FiniteSets, TLC

\* ------------------------------------------------------------------ bounds
\* longest input sentence, in words
MaxWords == 4
\* largest requested number of candidates
MaxTopn == 2
\* logits range over 0..MaxLogit
MaxLogit == 1
\* longest sequence the checkpoint has position embeddings for: the 512 of
\* bert-base-uncased, cut down like the vocabulary
MaxContext == 6

\* ------------------------------------------------------ characters, tokens
MASK == <<"[", "M", "A", "S", "K", "]">>
CLS == <<"[", "C", "L", "S", "]">>
SEP == <<"[", "S", "E", "P", "]">>
UNK == <<"[", "U", "N", "K", "]">>
SPACE == <<" ">>

\* The tokenizer's special tokens, never split and never lower-cased.
SpecialTokens == {MASK, CLS, SEP, UNK}

\* The vocabulary of the loaded checkpoint, cut down to the special tokens and
\* one word; a token id is an index into it.  Every other word piece is out of
\* this vocabulary and gets the id of [UNK].
Vocab == <<UNK, CLS, SEP, MASK, <<"a">>>>

VocabIds == 1..Len(Vocab)

\* Characters the basic tokenizer splits off as punctuation.
Punct == {"[", "]"}

\* str.lower() on one character.
Lower(c) ==
  CASE c = "A" -> "a" [] c = "C" -> "c" [] c = "E" -> "e" [] c = "K" -> "k"
    [] c = "L" -> "l" [] c = "M" -> "m" [] c = "N" -> "n" [] c = "P" -> "p"
    [] c = "S" -> "s" [] c = "U" -> "u" [] OTHER -> c

CharsOf(s) == {s[k] : k \in DOMAIN s}

StartsWith(s, p) == Len(s) >= Len(p) /\ SubSeq(s, 1, Len(p)) = p

Drop(s, n) == SubSeq(s, n + 1, Len(s))

\* ---------------------------------------------------------- str.lstrip/rstrip
\* Dropping one leading character of the set only.
lstrip_first(s, chars) == IF s # <<>> /\ Head(s) \in chars THEN Tail(s) ELSE s

\* str.lstrip(chars): drops leading characters that are in the SET chars.
RECURSIVE lstrip(_, _)
lstrip(s, chars) ==
  IF s # <<>> /\ Head(s) \in chars THEN lstrip(Tail(s), chars) ELSE s

\* str.rstrip(chars): drops trailing characters that are in the SET chars.
RECURSIVE rstrip(_, _)
rstrip(s, chars) ==
  IF s # <<>> /\ s[Len(s)] \in chars THEN rstrip(SubSeq(s, 1, Len(s) - 1), chars) ELSE s

\* text = '[CLS] '+ text.lstrip('[CLS] ').rstrip(' [SEP]')+' [SEP]'
PrepareText(t) ==
  CLS \o SPACE
    \o rstrip(lstrip(t, CharsOf(CLS \o SPACE)), CharsOf(SPACE \o SEP))
    \o SPACE \o SEP

\* ------------------------------------------------------- tokenizer.tokenize
\* Special tokens are cut out wherever they occur; the rest is split on
\* whitespace and punctuation and lower-cased.  w is the word being read.
RECURSIVE tokenize_from(_, _)
tokenize_from(s, w) ==
  LET flush == IF w = <<>> THEN <<>> ELSE <<w>> IN
  IF s = <<>> THEN flush
  ELSE IF \E sp \in SpecialTokens : StartsWith(s, sp)
    THEN LET sp == CHOOSE x \in SpecialTokens : StartsWith(s, x)
         IN flush \o <<sp>> \o tokenize_from(Drop(s, Len(sp)), <<>>)
  ELSE IF Head(s) = " " THEN flush \o tokenize_from(Tail(s), <<>>)
  ELSE IF Head(s) \in Punct
    THEN flush \o <<<<Head(s)>>>> \o tokenize_from(Tail(s), <<>>)
  ELSE tokenize_from(Tail(s), Append(w, Lower(Head(s))))

\* Whitespace always separates tokens: the text is cut at the blank nearest
\* to its middle and the halves are tokenized on their own.
RECURSIVE tokenize(_)
tokenize(t) ==
  LET blanks == {k \in DOMAIN t : t[k] = " "}
      dist(k) == IF 2 * k >= Len(t) THEN 2 * k - Len(t) ELSE Len(t) - 2 * k
  IN IF blanks = {} THEN tokenize_from(t, <<>>)
     ELSE LET k == CHOOSE x \in blanks : \A y \in blanks : dist(x) <= dist(y)
          IN tokenize(SubSeq(t, 1, k - 1)) \o tokenize(Drop(t, k))

\* tokenizer.convert_tokens_to_ids: out-of-vocabulary tokens map to [UNK].
TokenId(tok) ==
  IF \E v \in VocabIds : Vocab[v] = tok
    THEN CHOOSE v \in VocabIds : Vocab[v] = tok
    ELSE 1

convert_tokens_to_ids(toks) == [k \in DOMAIN toks |-> TokenId(toks[k])]

\* tokenizer.convert_ids_to_tokens
convert_ids_to_tokens(ids) == [k \in DOMAIN ids |-> Vocab[ids[k]]]

\* ------------------------------------------------------------ input texts
Pieces == {MASK, <<"a">>, <<"S">>}

RECURSIVE Join(_)
Join(ps) ==
  IF ps = <<>> THEN <<>>
  ELSE IF Len(ps) = 1 THEN ps[1]
  ELSE ps[1] \o SPACE \o Join(Tail(ps))

\* The sentences a caller may pass: up to MaxWords words or placeholders.
Texts == {Join(ps) : ps \in UNION {[1..n -> Pieces] : n \in 0..MaxWords}}

\* longest text given to the preparation step alone, in pieces
MaxPrepPieces == 3

PrepPieces == {MASK, CLS, SEP, <<"a">>, <<"S">>, <<"E">>, <<"C">>, SPACE}

RECURSIVE Concat(_)
Concat(ps) == IF ps = <<>> THEN <<>> ELSE Head(ps) \o Concat(Tail(ps))

\* Texts for the preparation step: letters, blanks, placeholders and special
\* tokens in any order, already prepared texts among them.
PrepTexts == {Concat(ps) : ps \in UNION {[1..n -> PrepPieces] : n \in 0..MaxPrepPieces}}

\* Number of '[MASK]' placeholders in a text.
RECURSIVE CountMask(_)
CountMask(s) ==
  IF s = <<>> THEN 0
  ELSE IF StartsWith(s, MASK) THEN 1 + CountMask(Drop(s, Len(MASK)))
  ELSE CountMask(Tail(s))


\* ------------------------------------------------------------- arithmetic
\* exp(x) for x = 0, 1, 2, 3 in units of 10^-4 (index x + 1).
ExpTable == <<10000, 27183, 73891, 200855>>

Exp(x) == ExpTable[x + 1]

\* Probabilities rounded to 4 decimals are integers in units of 10^-4.
Unit == 10000

RECURSIVE SumSeq(_)
SumSeq(s) == IF s = <<>> THEN 0 ELSE Head(s) + SumSeq(Tail(s))

\* Rounding up to the next multiple of 10^-4 instead of to the nearest one.
Round4Up(num, den) ==
  IF (num * Unit) % den = 0 THEN (num * Unit) \div den ELSE (num * Unit) \div den + 1

\* round(num / den, 4) in units of 10^-4; ties go to the even neighbour.
Round4(num, den) ==
  LET q == (num * Unit) \div den
      r == (num * Unit) % den
  IN IF 2 * r > den \/ (2 * r = den /\ q % 2 = 1) THEN q + 1 ELSE q

\* torch.softmax over a vector of logits: entry k is num[k] / den.
softmax(logits) ==
  [num |-> [k \in DOMAIN logits |-> Exp(logits[k])],
   den |-> SumSeq([k \in 1..Len(logits) |-> Exp(logits[k])])]

\* Python indexing of a sequence with a possibly negative index.
PyIndex(s, k) == IF k >= 0 THEN s[k + 1] ELSE s[Len(s) + k + 1]

\* --------------------------------------------------------------- the model
LogitVals == 0..MaxLogit

\* The checkpoints from_pretrained('bert-base-uncased') may load: one weight
\* per vocabulary entry.
Checkpoints == [VocabIds -> LogitVals]

\* A loaded model: its weights and whether it is in training mode.
pretrained(w) == [weights |-> w, training |-> FALSE]

\* The weights initialised afresh on the way to evaluation mode.
eval_mode_reinitialised(m) ==
  [weights |-> [t \in DOMAIN m.weights |-> 0], training |-> FALSE]

\* The model left in training mode, dropout on: eval() forgotten.
eval_mode_forgotten(m) == [m EXCEPT !.training = TRUE]

\* model.eval()
eval_mode(m) == [m EXCEPT !.training = FALSE]

\* outputs[0] of BertForMaskedLM: one row of vocabulary logits per position,
\* a deterministic function of the weights, the token, its segment and its
\* position.
MaskedLMForward(m, ids, segs) ==
  [p \in DOMAIN ids |->
     [v \in VocabIds |-> (m.weights[v] + ids[p] * v + segs[p] + p) % (MaxLogit + 1)]]

\* model(...) raises when the sequence is longer than the position
\* embeddings: the sum of the embeddings fails on the tensor sizes.
forward_raises(m, ids) == Len(ids) > MaxContext

\* try: model = model.to('cuda') / except: pass -- what is left of the
\* exception after the handler: nothing.
except_reraise(exc) == exc

except_pass(exc) == ""

\* ------------------------------------------------------------ predict_word
\* for i, token in enumerate(tokenized_text): if token=='[MASK]': ...; break
\* k is the next 0-based index; st holds masked_index, i and whether i is bound.
\* The loop without its break: the last '[MASK]' wins.
mask_loop_no_break(toks, k, st) ==
  LET ms == {j \in k..(Len(toks) - 1) : toks[j + 1] = MASK}
  IN [masked_index |-> IF ms = {} THEN st.masked_index
                       ELSE CHOOSE j \in ms : \A x \in ms : x <= j,
      i |-> IF k < Len(toks) THEN Len(toks) - 1 ELSE st.i,
      bound |-> st.bound \/ k < Len(toks)]

RECURSIVE mask_loop(_, _, _)
mask_loop(toks, k, st) ==
  IF k >= Len(toks) THEN st
  ELSE IF toks[k + 1] = MASK
    THEN [masked_index |-> k, i |-> k, bound |-> TRUE]
  ELSE mask_loop(toks, k + 1, [st EXCEPT !.i = k, !.bound = TRUE])

find_mask(toks) == mask_loop(toks, 0, [masked_index |-> -1, i |-> -1, bound |-> FALSE])

\* assert i>=0
assert_passes(st) == st.bound /\ st.i >= 0

\* torch.argsort(-row): every ordering of the ids by descending logit; the
\* order among equal logits is not fixed by the library.
RECURSIVE PermSeqs(_)
PermSeqs(S) ==
  IF S = {} THEN {<<>>}
  ELSE UNION {{<<x>> \o p : p \in PermSeqs(S \ {x})} : x \in S}

Perms == PermSeqs(VocabIds)

\* torch.argsort(row), the minus sign forgotten: ascending logits.
argsort_asc(row) ==
  {p \in Perms : \A k \in 1..(Len(Vocab) - 1) : row[p[k]] <= row[p[k + 1]]}

argsort_desc(row) ==
  {p \in Perms : \A k \in 1..(Len(Vocab) - 1) : -row[p[k]] <= -row[p[k + 1]]}

\* [round(p.item(),4) for p in torch.softmax(row, 0)[predicted_inds]]
rounded_probs(row, inds) ==
  LET sm == softmax(row)
  IN [k \in DOMAIN inds |-> Round4(sm.num[inds[k]], sm.den)]

\* ===================================================== 2b: predict_nsp
\* longest sentence given to predict_nsp, in words
MaxNspWords == 1

\* tokenizer.model_max_length of bert-base-uncased
model_max_length == 512

NspWords == {<<"a">>, <<"S">>}

NspSentences == {Join(ps) : ps \in UNION {[1..n -> NspWords] : n \in 0..MaxNspWords}}

\* BertTokenizer.from_pretrained('bert-base-uncased')
load_tokenizer == [vocab |-> Vocab, model_max_length |-> model_max_length]

VocabId(tok, t) ==
  IF \E v \in DOMAIN tok.vocab : tok.vocab[v] = t
    THEN CHOOSE v \in DOMAIN tok.vocab : tok.vocab[v] = t
    ELSE 1

\* truncation=True: while the pair is too long, drop the last token of the
\* longer sentence (of the second one when they are equally long).
RECURSIVE truncate_longest_first(_, _, _)
truncate_longest_first(a, b, budget) ==
  IF Len(a) + Len(b) <= budget \/ (a = <<>> /\ b = <<>>) THEN <<a, b>>
  ELSE IF Len(a) > Len(b)
    THEN truncate_longest_first(SubSeq(a, 1, Len(a) - 1), b, budget)
  ELSE truncate_longest_first(a, SubSeq(b, 1, Len(b) - 1), budget)

\* tokenizer(sentence1, sentence2, padding=True, truncation=True):
\* [CLS] A [SEP] B [SEP], segment 0 up to the first [SEP], segment 1 after
\* it; a single example gets no padding.
encode_pair(tok, s1, s2) ==
  LET cut == truncate_longest_first(tokenize(s1), tokenize(s2), tok.model_max_length - 3)
      a == [k \in DOMAIN cut[1] |-> VocabId(tok, cut[1][k])]
      b == [k \in DOMAIN cut[2] |-> VocabId(tok, cut[2][k])]
      ids == <<VocabId(tok, CLS)>> \o a \o <<VocabId(tok, SEP)>> \o b \o <<VocabId(tok, SEP)>>
  IN [input_ids |-> ids,
      token_type_ids |-> [k \in DOMAIN ids |-> IF k <= Len(a) + 2 THEN 0 ELSE 1],
      attention_mask |-> [k \in DOMAIN ids |-> 1]]

\* The checkpoints of the two-class head: one weight per class.
NspCheckpoints == [{0, 1} -> LogitVals]

\* Dropout is active in training mode only: the set of positions it zeroes.
DropMasks(m, n) == IF m.training THEN SUBSET (1..n) ELSE {{}}

RECURSIVE pooled(_, _, _, _)
pooled(ids, types, drop, p) ==
  IF p > Len(ids) THEN 0
  ELSE (IF p \in drop THEN 0 ELSE ids[p] * (1 + types[p])) + pooled(ids, types, drop, p + 1)

\* A model that sees the token ids as a bag: no segments, no order.
NspForwardUnordered(m, inputs, drop) ==
  LET h == pooled(inputs.input_ids, [k \in DOMAIN inputs.input_ids |-> 0], drop, 1)
  IN <<(m.weights[0] + h) % (MaxLogit + 1), (m.weights[1] + 2 * h) % (MaxLogit + 1)>>

\* outputs.logits of BertForNextSentencePrediction: two logits, a
\* deterministic function of the weights and of the token and segment ids
\* that dropout has not zeroed.
NspForward(m, inputs, drop) ==
  LET h == pooled(inputs.input_ids, inputs.token_type_ids, drop, 1)
  IN <<(m.weights[0] + h) % (MaxLogit + 1), (m.weights[1] + 2 * h) % (MaxLogit + 1)>>

\* exp(logit 0) over 1: the normalisation left out.
first_class_unnormalised(logits) == [num |-> Exp(logits[1]), den |-> Unit]

\* [:, 1] instead of [:, 0]
second_class_probability(logits) ==
  [num |-> softmax(logits).num[2], den |-> softmax(logits).den]

\* torch.softmax(outputs.logits, dim=1)[:, 0].item(), as the fraction num/den
first_class_probability(logits) ==
  [num |-> softmax(logits).num[1], den |-> softmax(logits).den]
\* ================================= 2c: fine-tuning sentence classification
\* size of the training sample: select(range(500)), scaled down
TrainSize == 2
\* size of the validation sample: select(range(100)), scaled down
EvalSize == 2
\* classifier weights range over -MaxWeight..MaxWeight
MaxWeight == 1

\* tokenizer(..., padding='max_length', truncation=True, max_length=128)
max_length == 128

per_device_train_batch_size == 16

per_device_eval_batch_size == 64

num_train_epochs == 1

\* position embeddings of distilbert-base-uncased
max_position_embeddings == 512

PAD == <<"[", "P", "A", "D", "]">>

\* The vocabulary of the distilbert tokenizer, cut down like Vocab.
FtVocab == <<PAD, UNK, CLS, SEP, <<"a">>>>

FtTokenId(t) ==
  IF \E v \in DOMAIN FtVocab : FtVocab[v] = t
    THEN CHOOSE v \in DOMAIN FtVocab : FtVocab[v] = t
    ELSE CHOOSE v \in DOMAIN FtVocab : FtVocab[v] = UNK

\* The ids the classifier has a weight for: the word pieces.
FtWordIds == {FtTokenId(UNK), FtTokenId(<<"a">>)}

WeightVals == (0 - MaxWeight)..MaxWeight

\* A sentence of more words than max_length has room for.
long_sentence == [k \in 1..(2 * max_length + 3) |-> IF k % 2 = 1 THEN "a" ELSE " "]

\* load_dataset('glue', 'sst2'): labelled sentences in fixed splits.
dataset ==
  [train |-> <<[sentence |-> Join(<<<<"a">>>>), label |-> 1],
               [sentence |-> Join(<<<<"S">>>>), label |-> 0],
               [sentence |-> Join(<<<<"a">>, <<"S">>>>), label |-> 1],
               [sentence |-> Join(<<<<"S">>, <<"S">>>>), label |-> 0]>>,
   validation |-> <<[sentence |-> Join(<<<<"a">>>>), label |-> 1],
                    [sentence |-> Join(<<<<"S">>>>), label |-> 0],
                    [sentence |-> Join(<<<<"a">>, <<"a">>>>), label |-> 0],
                    [sentence |-> long_sentence, label |-> 1]>>]

\* split.shuffle(seed=seed).select(range(n)): the first n rows of some fixed
\* reordering of the split, so n different rows.
shuffle_select(split, n) ==
  {[k \in 1..n |-> split[p[k]]] :
     p \in {q \in [1..n -> DOMAIN split] : \A a, b \in 1..n : a # b => q[a] # q[b]}}

Min(a, b) == IF a <= b THEN a ELSE b

\* truncation=True left out: padded to max_length, never cut.
tokenize_function_no_truncation(sentence) ==
  LET toks == tokenize(sentence)
      ids == <<FtTokenId(CLS)>> \o [k \in DOMAIN toks |-> FtTokenId(toks[k])]
               \o <<FtTokenId(SEP)>>
      n == IF Len(ids) > max_length THEN Len(ids) ELSE max_length
  IN [input_ids |-> [k \in 1..n |-> IF k <= Len(ids) THEN ids[k] ELSE FtTokenId(PAD)],
      attention_mask |-> [k \in 1..n |-> IF k <= Len(ids) THEN 1 ELSE 0]]

\* tokenize_function on one sentence: [CLS] tokens [SEP], cut to max_length,
\* padded with [PAD] to max_length.
tokenize_function(sentence) ==
  LET toks == tokenize(sentence)
      kept == SubSeq(toks, 1, Min(Len(toks), max_length - 2))
      ids == <<FtTokenId(CLS)>> \o [k \in DOMAIN kept |-> FtTokenId(kept[k])]
               \o <<FtTokenId(SEP)>>
  IN [input_ids |-> [k \in 1..max_length |-> IF k <= Len(ids) THEN ids[k] ELSE FtTokenId(PAD)],
      attention_mask |-> [k \in 1..max_length |-> IF k <= Len(ids) THEN 1 ELSE 0]]

\* small_dataset.map(tokenize_function, batched=True) and
\* set_format('torch', columns=['input_ids', 'attention_mask', 'label'])
tokenize_split(split) ==
  [k \in DOMAIN split |->
     [input_ids |-> tokenize_function(split[k].sentence).input_ids,
      attention_mask |-> tokenize_function(split[k].sentence).attention_mask,
      label |-> split[k].label]]

FtCheckpoints == [FtWordIds -> WeightVals]

\* Dropout in the classifier: active in training mode only.
DropChoices(m) == IF m.training THEN BOOLEAN ELSE {FALSE}

\* How often token t stands at an unpadded position of the example that
\* dropout has not zeroed (dropout, when drawn, zeroes the first word).
count_token(ex, t, drop) ==
  Cardinality({p \in DOMAIN ex.input_ids :
                 /\ ex.attention_mask[p] = 1
                 /\ ex.input_ids[p] = t
                 /\ ~(drop /\ p = 2)})

RECURSIVE score_over(_, _, _, _)
score_over(m, ex, drop, ts) ==
  IF ts = {} THEN 0
  ELSE LET t == CHOOSE x \in ts : TRUE
       IN m.weights[t] * count_token(ex, t, drop) + score_over(m, ex, drop, ts \ {t})

\* The two logits of the sequence classifier for one example: a
\* deterministic function of the weights and of the unpadded tokens that
\* dropout has not zeroed.
ClassifierForward(m, ex, drop) ==
  <<0 - score_over(m, ex, drop, FtWordIds), score_over(m, ex, drop, FtWordIds)>>

\* np.argmin: the first index of the smallest entry.
argmin(row) ==
  CHOOSE k \in 0..(Len(row) - 1) :
    /\ \A j \in DOMAIN row : row[j] >= row[k + 1]
    /\ \A j \in 1..k : row[j] > row[k + 1]

\* np.argmax(row, axis=-1): the first index of the largest entry.
argmax(row) ==
  CHOOSE k \in 0..(Len(row) - 1) :
    /\ \A j \in DOMAIN row : row[j] <= row[k + 1]
    /\ \A j \in 1..k : row[j] < row[k + 1]

RECURSIVE count_equal(_, _)
count_equal(a, b) ==
  IF a = <<>> THEN 0
  ELSE (IF Head(a) = Head(b) THEN 1 ELSE 0) + count_equal(Tail(a), Tail(b))

\* metric.compute(predictions=..., references=...) of the accuracy metric,
\* as the fraction num/den.
accuracy_metric(preds, refs) ==
  [accuracy |-> [num |-> count_equal(preds, refs), den |-> Len(refs)]]

\* predictions = np.argmin(logits, axis=-1)
compute_metrics_argmin(eval_pred) ==
  accuracy_metric([k \in DOMAIN eval_pred.logits |-> argmin(eval_pred.logits[k])],
                  eval_pred.labels)

compute_metrics(eval_pred) ==
  LET logits == eval_pred.logits
      labels == eval_pred.labels
      preds == [k \in DOMAIN logits |-> argmax(logits[k])]
  IN accuracy_metric(preds, labels)

\* The evaluation loop of Trainer.evaluate / Trainer.predict on a split,
\* given the model (already put in evaluation mode) and the dropout draws.
evaluation_loop(m, split, drops) ==
  LET logits == [k \in DOMAIN split |-> ClassifierForward(m, split[k], drops[k])]
      labels == [k \in DOMAIN split |-> split[k].label]
  IN [predictions |-> logits,
      label_ids |-> labels,
      metrics |-> compute_metrics([logits |-> logits, labels |-> labels])]

\* model.train(): dropout on.
train_mode(m) == [m EXCEPT !.training = TRUE]

\* The direction the batch pushes the weight of token t: every example the
\* model gets wrong pulls the weights of its tokens towards its label.
RECURSIVE batch_gradient(_, _, _)
batch_gradient(m, batch, t) ==
  IF batch = <<>> THEN 0
  ELSE LET ex == Head(batch)
           wrong == argmax(ClassifierForward(m, ex, FALSE)) # ex.label
       IN (IF wrong THEN (IF ex.label = 1 THEN 1 ELSE 0 - 1) * count_token(ex, t, FALSE) ELSE 0)
          + batch_gradient(m, Tail(batch), t)

Sign(x) == IF x > 0 THEN 1 ELSE IF x < 0 THEN 0 - 1 ELSE 0

Clip(x) == IF x > MaxWeight THEN MaxWeight ELSE IF x < 0 - MaxWeight THEN 0 - MaxWeight ELSE x

\* One optimizer step of trainer.train() on one batch.
training_step(m, batch) ==
  [m EXCEPT !.weights =
     [t \in FtWordIds |-> Clip(m.weights[t] + Sign(batch_gradient(m, batch, t)))]]

\* The rows of the training sample in the batch of step s (1-based).
batch_of(split, s) ==
  SubSeq(split, (s - 1) * per_device_train_batch_size + 1,
         Min(Len(split), s * per_device_train_batch_size))

\* num_train_epochs=2: every batch of the training sample taken twice.
max_steps_two_epochs(split) ==
  2 * ((Len(split) + per_device_train_batch_size - 1) \div per_device_train_batch_size)

\* Optimizer steps in the whole training run.
max_steps(split) ==
  num_train_epochs
    * ((Len(split) + per_device_train_batch_size - 1) \div per_device_train_batch_size)


\* ============================================ the tokenization comparison
\* number of reviews in the corpus: the 2000 of movie_reviews, cut down
NumDocs == 3

\* The raw reviews the corpus may hold.
ReviewTexts == {<<"a", "s">>, <<"S", "a">>, <<"a", " ", "s">>}

\* df: one row per review, 'review' and 'sentiment', indexed 1..NumDocs.
Corpora == [1..NumDocs -> [review : ReviewTexts, sentiment : {"neg", "pos"}]]

\* df.sentiment.map({'neg': 0, 'pos': 1})
sentiment_num(s) == IF s = "pos" THEN 1 ELSE 0

\* text.lower()
lower(t) == [k \in DOMAIN t |-> Lower(t[k])]

\* train_test_split(X, y, test_size=0.2, random_state=42): the rows in the
\* order of the seeded permutation, the first ceil(0.2 n) of them for
\* testing and the rest for training.
train_test_split(n, perm) ==
  LET n_test == (n + 4) \div 5
  IN [X_test |-> SubSeq(perm, 1, n_test), X_train |-> SubSeq(perm, n_test + 1, n)]

RowSet(X) == {X[k] : k \in DOMAIN X}

\* The lines of the BPE training file, taken from every review of df.
bpe_train_file_all(frame, X) ==
  [k \in DOMAIN frame |-> [row |-> k, line |-> frame[k].review]]

\* for line in X_train: f.write(line + '\n')
bpe_train_file(frame, X) ==
  [k \in DOMAIN X |-> [row |-> X[k], line |-> frame[X[k]].review]]

\* The pairs of neighbouring characters inside the words of a text.
AdjacentPairs(t) ==
  {<<t[k], t[k + 1]>> : k \in {j \in 1..(Len(t) - 1) : t[j] # " " /\ t[j + 1] # " "}}

\* spm.SentencePieceTrainer.train(input='bpe_train.txt', model_type='bpe'):
\* the merges learned from the file, here every pair of neighbouring
\* characters that occurs in it.
SentencePieceTrainer_train(lines) ==
  UNION {AdjacentPairs(lines[k].line) : k \in DOMAIN lines}

\* sp.encode(text, out_type=str): merged pairs where the model has them,
\* single characters elsewhere; blanks separate the pieces.
RECURSIVE sp_encode(_, _)
sp_encode(pieces, t) ==
  IF t = <<>> THEN <<>>
  ELSE IF Head(t) = " " THEN sp_encode(pieces, Tail(t))
  ELSE IF Len(t) >= 2 /\ <<t[1], t[2]>> \in pieces
    THEN <<SubSeq(t, 1, 2)>> \o sp_encode(pieces, Drop(t, 2))
  ELSE <<SubSeq(t, 1, 1)>> \o sp_encode(pieces, Tail(t))

\* The features CountVectorizer(analyzer='char') sees in a text: its
\* characters, lower-cased.
char_analyzer(t) == [k \in DOMAIN t |-> <<Lower(t[k])>>]

\* The features CountVectorizer() sees in ' '.join(tokens): the tokens of
\* two or more word characters.
default_analyzer(tokens) == SelectSeq(tokens, LAMBDA tok : Len(tok) >= 2)

\* vectorizer.fit: the vocabulary is every feature of the fitted texts.
fit_vocabulary(feats) == UNION {{feats[k][j] : j \in DOMAIN feats[k]} : k \in DOMAIN feats}

\* vectorizer.transform: per text, the count of every vocabulary feature;
\* features outside the vocabulary are ignored.
transform(vocabulary, feats) ==
  [k \in DOMAIN feats |->
     [f \in vocabulary |-> Cardinality({j \in DOMAIN feats[k] : feats[k][j] = f})]]

RECURSIVE SumOver(_, _)
SumOver(f, S) ==
  IF S = {} THEN 0
  ELSE LET x == CHOOSE y \in S : TRUE IN f[x] + SumOver(f, S \ {x})

RECURSIVE Power(_, _)
Power(b, n) == IF n = 0 THEN 1 ELSE b * Power(b, n - 1)

RECURSIVE ProductOver(_, _)
ProductOver(f, S) ==
  IF S = {} THEN 1
  ELSE LET x == CHOOSE y \in S : TRUE IN f[x] * ProductOver(f, S \ {x})

\* MultinomialNB().fit(X, y): the number of texts and the feature counts of
\* each class.
MultinomialNB_fit(X, y) ==
  LET vocabulary == IF X = <<>> THEN {} ELSE DOMAIN X[1]
      of_class(c) == {k \in DOMAIN X : y[k] = c}
  IN [vocabulary |-> vocabulary,
      class_count |-> [c \in {0, 1} |-> Cardinality(of_class(c))],
      feature_count |->
        [c \in {0, 1} |->
           [f \in vocabulary |-> SumOver([k \in DOMAIN X |-> X[k][f]], of_class(c))]]]

\* model.predict(x): the class with the larger smoothed likelihood times
\* prior (alpha = 1), class 0 on a tie; a class without training texts is
\* never predicted.
MultinomialNB_predict(m, x) ==
  LET V == Cardinality(m.vocabulary)
      len == SumOver(x, m.vocabulary)
      total(c) == SumOver(m.feature_count[c], m.vocabulary)
      like(c) == ProductOver([f \in m.vocabulary |-> Power(m.feature_count[c][f] + 1, x[f])],
                             m.vocabulary)
      score(c, other) == m.class_count[c] * like(c) * Power(total(other) + V, len)
  IN IF score(1, 0) > score(0, 1) THEN 1 ELSE 0

\* accuracy_score(y_test, y_pred) as the fraction num/den
accuracy_score(y_true, y_pred) ==
  [num |-> Cardinality({k \in DOMAIN y_true : y_true[k] = y_pred[k]}), den |-> Len(y_true)]

\* f1_score(y_test, y_pred) as the fraction num/den; 0 when there is
\* neither a positive label nor a positive prediction.
f1_score(y_true, y_pred) ==
  LET tp == Cardinality({k \in DOMAIN y_true : y_true[k] = 1 /\ y_pred[k] = 1})
      fp == Cardinality({k \in DOMAIN y_true : y_true[k] = 0 /\ y_pred[k] = 1})
      fn == Cardinality({k \in DOMAIN y_true : y_true[k] = 1 /\ y_pred[k] = 0})
  IN IF 2 * tp + fp + fn = 0 THEN [num |-> 0, den |-> 1]
     ELSE [num |-> 2 * tp, den |-> 2 * tp + fp + fn]
\* ==================================================================== state
VARIABLES
  mlm_model,        \* 2a: the loaded BertForMaskedLM
  device,           \* where the model is: "cpu" or "cuda", "" before loading
  lib_exc,          \* the latest exception a library call raised, and where
  pc,               \* 2a: position inside the notebook and predict_word
  arg_text,         \* the text argument as the caller passed it
  topn,             \* the topn argument
  text,             \* the local text after preparation
  tokenized_text,
  masked_index,
  i,
  indexed_tokens,
  predictions,      \* outputs[0][0]
  predicted_inds,
  predicted_probs,
  predicted_tokens,
  ret,              \* what predict_word returned
  err               \* the exception that ended the call, "" when none

VARIABLES
  nsp_pc,           \* 2b: position inside the notebook
  nsp_model,        \* the loaded BertForNextSentencePrediction
  nsp_tokenizer,    \* the loaded BertTokenizer
  nsp_loaded,       \* model and tokenizer as the loading cell left them
  nsp_call,         \* the latest predict_nsp call: arguments, inputs, logits, result
  probability1      \* the notebook's first result, with its arguments

VARIABLES
  ft_pc,              \* 2c: the cell the notebook has reached
  small_dataset,      \* the training and validation samples
  tokenized_datasets,
  ft_model,           \* the sequence classifier the trainers share
  ft_pretrained,      \* the model as from_pretrained returned it
  trainer,            \* the current Trainer: its arguments and datasets
  eval_results,       \* the latest trainer.evaluate() result
  ft_predictions,     \* the latest trainer.predict() result
  metric_call,        \* the latest compute_metrics call: eval_pred and result
  global_step,        \* optimizer steps taken by trainer.train()
  log_history,        \* the evaluations trainer.train() ran itself
  checkpoint,         \* the checkpoint trainer.train() saved
  baseline_seen,      \* the accuracies measured before any training
  trained_on          \* the examples the optimizer steps have consumed, in order

VARIABLES
  prep_pc,          \* the preparation step on its own: where it stands
  prep_text,        \* the text it was given
  prepared,         \* the text after one preparation
  prepared_again    \* the prepared text after another preparation

VARIABLES
  tok_pc,           \* tokenization comparison: the cell the notebook has reached
  df,               \* the reviews and their sentiments
  data_split,       \* X_train and X_test, as rows of df
  sp,               \* the trained BPE model and the rows its training file held
  va_call,          \* the latest vectorize_and_train call: what it fitted and returned
  results           \* the scores stored per tokenizer name

mlm_locals == <<text, tokenized_text, masked_index, i, indexed_tokens, predictions,
                predicted_inds, predicted_probs, predicted_tokens>>

mlm_vars == <<mlm_model, device, lib_exc, pc, arg_text, topn, mlm_locals, ret, err>>

nsp_vars == <<nsp_pc, nsp_model, nsp_tokenizer, nsp_loaded, nsp_call, probability1>>

ft_vars == <<ft_pc, small_dataset, tokenized_datasets, ft_model, ft_pretrained, trainer,
             eval_results, ft_predictions, metric_call, global_step, log_history,
             checkpoint, baseline_seen, trained_on>>

prep_vars == <<prep_pc, prep_text, prepared, prepared_again>>

tok_vars == <<tok_pc, df, data_split, sp, va_call, results>>

vars == <<mlm_vars, nsp_vars, ft_vars, prep_vars, tok_vars>>

\* What a step of one notebook leaves alone: the other notebooks.
mlm_frame == UNCHANGED <<nsp_vars, ft_vars, prep_vars, tok_vars>>

nsp_frame == UNCHANGED <<mlm_vars, ft_vars, prep_vars, tok_vars>>

ft_frame == UNCHANGED <<mlm_vars, nsp_vars, prep_vars, tok_vars>>

prep_frame == UNCHANGED <<mlm_vars, nsp_vars, ft_vars, tok_vars>>

tok_frame == UNCHANGED <<mlm_vars, nsp_vars, ft_vars, prep_vars>>

NoModel == [weights |-> <<>>, training |-> FALSE]

NoExc == [type |-> "", at |-> ""]

NoRet == [returned |-> FALSE, isNone |-> FALSE, value |-> <<>>]

NoCall == [called |-> FALSE, interleaved |-> FALSE]

NoTrainer == [created |-> FALSE]

NoOutput == [done |-> FALSE]

\* Every notebook before its first cell has run.
Init ==
  /\ mlm_model = NoModel
  /\ device = ""
  /\ lib_exc = NoExc
  /\ pc = "unloaded"
  /\ arg_text = <<>>
  /\ topn = 0
  /\ text = <<>>
  /\ tokenized_text = <<>>
  /\ masked_index = -1
  /\ i = -1
  /\ indexed_tokens = <<>>
  /\ predictions = <<>>
  /\ predicted_inds = <<>>
  /\ predicted_probs = <<>>
  /\ predicted_tokens = <<>>
  /\ ret = NoRet
  /\ err = ""
  /\ nsp_pc = "unloaded"
  /\ nsp_model = NoModel
  /\ nsp_tokenizer = [vocab |-> <<>>, model_max_length |-> 0]
  /\ nsp_loaded = <<>>
  /\ nsp_call = NoCall
  /\ probability1 = NoCall
  /\ ft_pc = "start"
  /\ small_dataset = [train |-> <<>>, validation |-> <<>>]
  /\ tokenized_datasets = [train |-> <<>>, validation |-> <<>>]
  /\ ft_model = NoModel
  /\ ft_pretrained = NoModel
  /\ trainer = NoTrainer
  /\ eval_results = NoOutput
  /\ ft_predictions = NoOutput
  /\ metric_call = NoOutput
  /\ global_step = 0
  /\ log_history = <<>>
  /\ checkpoint = NoOutput
  /\ baseline_seen = {}
  /\ trained_on = <<>>
  /\ prep_pc = "idle"
  /\ prep_text = <<>>
  /\ prepared = <<>>
  /\ prepared_again = <<>>
  /\ tok_pc = "start"
  /\ df = <<>>
  /\ data_split = [X_train |-> <<>>, X_test |-> <<>>]
  /\ sp = [trained |-> FALSE]
  /\ va_call = NoOutput
  /\ results = <<>>

\* ======================================================== 2a: the notebook
ClearLocals ==
  /\ text' = <<>>
  /\ tokenized_text' = <<>>
  /\ masked_index' = -1
  /\ i' = -1
  /\ indexed_tokens' = <<>>
  /\ predictions' = <<>>
  /\ predicted_inds' = <<>>
  /\ predicted_probs' = <<>>
  /\ predicted_tokens' = <<>>

\* The loading cell: tokenizer and model from_pretrained, model.eval(), and
\* the move to CUDA inside try/except.  from_pretrained raises when the
\* checkpoint cannot be fetched; model.to('cuda') raises without a GPU.
MlmLoad ==
  /\ pc = "unloaded"
  /\ \E w \in Checkpoints, fetched \in BOOLEAN, gpu \in BOOLEAN :
       IF ~fetched
         THEN /\ lib_exc' = [type |-> "OSError", at |-> "from_pretrained"]
              /\ err' = "OSError"
              /\ pc' = "raised"
              /\ UNCHANGED <<mlm_model, device, lib_exc, device>>
         ELSE /\ mlm_model' = eval_mode(pretrained(w))
              /\ IF gpu
                   THEN /\ device' = "cuda"
                        /\ err' = ""
                        /\ pc' = "idle"
                        /\ UNCHANGED lib_exc
                   ELSE /\ device' = "cpu"
                        /\ lib_exc' = [type |-> "RuntimeError", at |-> "model.to"]
                        /\ err' = except_pass("RuntimeError")
                        /\ pc' = IF except_pass("RuntimeError") = "" THEN "idle" ELSE "raised"
  /\ UNCHANGED <<arg_text, topn, mlm_locals, ret>>
  /\ mlm_frame

\* predict_word(text, model, tokenizer, topn): prepare and tokenize.
PredictWordCall ==
  /\ pc = "idle"
  /\ \E t \in Texts, n \in 1..MaxTopn :
       /\ arg_text' = t
       /\ topn' = n
       /\ text' = PrepareText(t)
       /\ tokenized_text' = tokenize(PrepareText(t))
  /\ pc' = "tokenized"
  /\ ret' = NoRet
  /\ err' = ""
  /\ UNCHANGED <<mlm_model, device, lib_exc, masked_index, i, indexed_tokens, predictions,
                 predicted_inds, predicted_probs, predicted_tokens>>
  /\ mlm_frame

\* The search for the mask and the assertion after it.
PredictWordFindMask ==
  /\ pc = "tokenized"
  /\ LET st == find_mask(tokenized_text)
     IN /\ masked_index' = st.masked_index
        /\ i' = st.i
        /\ IF assert_passes(st)
             THEN pc' = "asserted" /\ err' = err
             ELSE pc' = "raised" /\ err' = IF st.bound THEN "AssertionError" ELSE "NameError"
  /\ UNCHANGED <<mlm_model, device, lib_exc, arg_text, topn, text, tokenized_text, indexed_tokens,
                 predictions, predicted_inds, predicted_probs, predicted_tokens, ret>>
  /\ mlm_frame

\* convert_tokens_to_ids, segments_ids and the forward pass under no_grad.
\* An exception of the model call leaves predict_word at once.
PredictWordInvokeModel ==
  /\ pc = "asserted"
  /\ LET ids == convert_tokens_to_ids(tokenized_text)
         segments_ids == [k \in DOMAIN tokenized_text |-> 0]
     IN /\ indexed_tokens' = ids
        /\ IF forward_raises(mlm_model, ids)
             THEN /\ lib_exc' = [type |-> "RuntimeError", at |-> "model"]
                  /\ err' = "RuntimeError"
                  /\ pc' = "raised"
                  /\ UNCHANGED predictions
             ELSE /\ predictions' = MaskedLMForward(mlm_model, ids, segments_ids)
                  /\ pc' = "predicted"
                  /\ UNCHANGED <<lib_exc, err>>
  /\ UNCHANGED <<mlm_model, device, arg_text, topn, text, tokenized_text, masked_index, i,
                 predicted_inds, predicted_probs, predicted_tokens, ret>>
  /\ mlm_frame

\* predicted_inds, predicted_probs, predicted_tokens at masked_index.
PredictWordRank ==
  /\ pc = "predicted"
  /\ LET row == PyIndex(predictions, masked_index)
     IN \E inds \in argsort_desc(row) :
          /\ predicted_inds' = inds
          /\ predicted_probs' = rounded_probs(row, inds)
          /\ predicted_tokens' = convert_ids_to_tokens(inds)
  /\ pc' = "ranked"
  /\ UNCHANGED <<mlm_model, device, lib_exc, arg_text, topn, text, tokenized_text, masked_index, i,
                 indexed_tokens, predictions, ret, err>>
  /\ mlm_frame

\* "# Your implementation here" / pass: the function falls off its end.
predict_word_result(tokens, probs, n) == [returned |-> TRUE, isNone |-> TRUE, value |-> <<>>]

PredictWordReturn ==
  /\ pc = "ranked"
  /\ ret' = predict_word_result(predicted_tokens, predicted_probs, topn)
  /\ pc' = "done"
  /\ ClearLocals
  /\ UNCHANGED <<mlm_model, device, lib_exc, arg_text, topn, err>>
  /\ mlm_frame

\* The notebook goes on to its next cell.  After an exception there is no
\* next cell: the run has stopped.
PredictWordNext ==
  /\ pc = "done"
  /\ pc' = "idle"
  /\ arg_text' = <<>>
  /\ topn' = 0
  /\ ret' = NoRet
  /\ err' = ""
  /\ ClearLocals
  /\ UNCHANGED <<mlm_model, device, lib_exc>>
  /\ mlm_frame

NextMLM ==
  \/ MlmLoad
  \/ PredictWordCall
  \/ PredictWordFindMask
  \/ PredictWordInvokeModel
  \/ PredictWordRank
  \/ PredictWordReturn
  \/ PredictWordNext


\* ======================================================== 2b: the notebook
\* The loading cell: tokenizer and model from_pretrained, model.eval().
NspLoad ==
  /\ nsp_pc = "unloaded"
  /\ \E w \in NspCheckpoints :
       /\ nsp_model' = eval_mode(pretrained(w))
       /\ nsp_tokenizer' = load_tokenizer
       /\ nsp_loaded' = <<eval_mode(pretrained(w)), load_tokenizer>>
  /\ nsp_pc' = "ready"
  /\ UNCHANGED <<nsp_call, probability1>>
  /\ nsp_frame

\* predict_nsp(sentence1, sentence2, model, tokenizer)
PredictNsp ==
  /\ nsp_pc = "ready"
  /\ \E s1, s2 \in NspSentences :
       LET inputs == encode_pair(nsp_tokenizer, s1, s2)
       IN \E drop \in DropMasks(nsp_model, Len(inputs.input_ids)) :
            LET logits == NspForward(nsp_model, inputs, drop)
                call == [called |-> TRUE, sentence1 |-> s1, sentence2 |-> s2,
                         inputs |-> inputs, logits |-> logits,
                         probability |-> first_class_probability(logits),
                         interleaved |->
                           /\ probability1.called
                           /\ \/ nsp_call.interleaved
                              \/ <<s1, s2>> # <<probability1.sentence1, probability1.sentence2>>]
            IN /\ nsp_call' = call
               /\ probability1' = IF probability1.called THEN probability1 ELSE call
  /\ UNCHANGED <<nsp_pc, nsp_model, nsp_tokenizer, nsp_loaded>>
  /\ nsp_frame

NextNSP ==
  \/ NspLoad
  \/ PredictNsp

\* ======================================================== 2c: the notebook
\* TrainingArguments(do_train=False, do_eval=True, eval_strategy='no') and
\* Trainer(model, args, eval_dataset, compute_metrics)
baseline_trainer ==
  [created |-> TRUE,
   eval_strategy |-> "no", save_strategy |-> "steps", load_best_model_at_end |-> FALSE,
   train_dataset |-> <<>>,
   eval_dataset |-> tokenized_datasets.validation]

\* eval_strategy='no' in the fine-tuning arguments: no evaluation while
\* training.
finetune_trainer_eval_never ==
  [created |-> TRUE,
   eval_strategy |-> "no", save_strategy |-> "epoch", load_best_model_at_end |-> TRUE,
   train_dataset |-> tokenized_datasets.train,
   eval_dataset |-> tokenized_datasets.validation]

\* The fine-tuning Trainer given the validation sample to train on.
finetune_trainer_on_validation ==
  [created |-> TRUE,
   eval_strategy |-> "epoch", save_strategy |-> "epoch", load_best_model_at_end |-> TRUE,
   train_dataset |-> tokenized_datasets.validation,
   eval_dataset |-> tokenized_datasets.validation]

\* TrainingArguments(eval_strategy='epoch', save_strategy='epoch',
\* num_train_epochs=1, load_best_model_at_end=True, ...) and
\* Trainer(model, args, train_dataset, eval_dataset, tokenizer, compute_metrics)
finetune_trainer ==
  [created |-> TRUE,
   eval_strategy |-> "epoch", save_strategy |-> "epoch", load_best_model_at_end |-> TRUE,
   train_dataset |-> tokenized_datasets.train,
   eval_dataset |-> tokenized_datasets.validation]

\* Section 3: the two samples.  select raises when the split is too short.
FtSample ==
  /\ ft_pc = "start"
  /\ IF TrainSize <= Len(dataset.train) /\ EvalSize <= Len(dataset.validation)
       THEN /\ \E tr \in shuffle_select(dataset.train, TrainSize),
                  ev \in shuffle_select(dataset.validation, EvalSize) :
                 small_dataset' = [train |-> tr, validation |-> ev]
            /\ ft_pc' = "sampled"
       ELSE /\ ft_pc' = "raised"
            /\ UNCHANGED small_dataset
  /\ UNCHANGED <<tokenized_datasets, ft_model, ft_pretrained, trainer, eval_results,
                 ft_predictions, metric_call, global_step, log_history, checkpoint,
                 baseline_seen>>
  /\ UNCHANGED trained_on
  /\ ft_frame

\* Section 4: map(tokenize_function) and set_format.
FtTokenize ==
  /\ ft_pc = "sampled"
  /\ tokenized_datasets' = [train |-> tokenize_split(small_dataset.train),
                            validation |-> tokenize_split(small_dataset.validation)]
  /\ ft_pc' = "tokenized"
  /\ UNCHANGED <<small_dataset, ft_model, ft_pretrained, trainer, eval_results,
                 ft_predictions, metric_call, global_step, log_history, checkpoint,
                 baseline_seen>>
  /\ UNCHANGED trained_on
  /\ ft_frame

\* Section 5: AutoModelForSequenceClassification.from_pretrained(num_labels=2)
FtLoadModel ==
  /\ ft_pc = "tokenized"
  /\ \E w \in FtCheckpoints :
       /\ ft_model' = pretrained(w)
       /\ ft_pretrained' = pretrained(w)
  /\ ft_pc' = "loaded"
  /\ UNCHANGED <<small_dataset, tokenized_datasets, trainer, eval_results,
                 ft_predictions, metric_call, global_step, log_history, checkpoint,
                 baseline_seen>>
  /\ UNCHANGED trained_on
  /\ ft_frame

\* The baseline cells: Trainer(...) and eval_results = trainer.evaluate().
\* The cell may be run again before the notebook moves on.
FtBaselineEvaluate ==
  /\ ft_pc \in {"loaded", "baseline_evaluated"}
  /\ LET m == eval_mode(ft_model)
         split == baseline_trainer.eval_dataset
     IN \E drops \in [DOMAIN split -> DropChoices(m)] :
          LET out == evaluation_loop(m, split, drops)
          IN /\ ft_model' = m
             /\ eval_results' = [done |-> TRUE, eval_accuracy |-> out.metrics.accuracy]
             /\ metric_call' = [done |-> TRUE,
                                eval_pred |-> [logits |-> out.predictions,
                                               labels |-> out.label_ids],
                                result |-> out.metrics]
             /\ baseline_seen' = baseline_seen \cup {out.metrics.accuracy}
  /\ trainer' = baseline_trainer
  /\ ft_pc' = "baseline_evaluated"
  /\ UNCHANGED <<small_dataset, tokenized_datasets, ft_pretrained, ft_predictions,
                 global_step, log_history, checkpoint>>
  /\ UNCHANGED trained_on
  /\ ft_frame

\* predictions = trainer.predict(tokenized_datasets['validation'])
FtBaselinePredict ==
  /\ ft_pc = "baseline_evaluated"
  /\ LET m == eval_mode(ft_model)
         split == tokenized_datasets.validation
     IN \E drops \in [DOMAIN split -> DropChoices(m)] :
          LET out == evaluation_loop(m, split, drops)
          IN /\ ft_model' = m
             /\ ft_predictions' = [done |-> TRUE, predictions |-> out.predictions,
                                   label_ids |-> out.label_ids,
                                   test_accuracy |-> out.metrics.accuracy]
             /\ metric_call' = [done |-> TRUE,
                                eval_pred |-> [logits |-> out.predictions,
                                               labels |-> out.label_ids],
                                result |-> out.metrics]
             /\ baseline_seen' = baseline_seen \cup {out.metrics.accuracy}
  /\ ft_pc' = "baseline_predicted"
  /\ UNCHANGED <<small_dataset, tokenized_datasets, ft_pretrained, trainer, eval_results,
                 global_step, log_history, checkpoint>>
  /\ UNCHANGED trained_on
  /\ ft_frame

\* Section 6: the fine-tuning Trainer, and trainer.train() starting.
FtTrainBegin ==
  /\ ft_pc = "baseline_predicted"
  /\ trainer' = finetune_trainer
  /\ ft_model' = train_mode(ft_model)
  /\ global_step' = 0
  /\ trained_on' = <<>>
  /\ ft_pc' = "training"
  /\ UNCHANGED <<small_dataset, tokenized_datasets, ft_pretrained, eval_results,
                 ft_predictions, metric_call, log_history, checkpoint, baseline_seen>>
  /\ ft_frame

\* trainer.train(): one optimizer step on the next batch.
FtTrainStep ==
  /\ ft_pc = "training"
  /\ global_step < max_steps(trainer.train_dataset)
  /\ ft_model' = training_step(train_mode(ft_model),
                               batch_of(trainer.train_dataset, global_step + 1))
  /\ global_step' = global_step + 1
  /\ trained_on' = trained_on \o batch_of(trainer.train_dataset, global_step + 1)
  /\ UNCHANGED <<ft_pc, small_dataset, tokenized_datasets, ft_pretrained, trainer,
                 eval_results, ft_predictions, metric_call, log_history, checkpoint,
                 baseline_seen>>
  /\ ft_frame

\* trainer.train(): the end of the epoch, with eval_strategy='epoch' and
\* save_strategy='epoch': evaluate, then save a checkpoint.
FtEpochEnd ==
  /\ ft_pc = "training"
  /\ global_step = max_steps(trainer.train_dataset)
  /\ LET m == eval_mode(ft_model)
         split == trainer.eval_dataset
     IN \E drops \in [DOMAIN split -> DropChoices(m)] :
          LET out == evaluation_loop(m, split, drops)
          IN /\ ft_model' = m
             /\ IF trainer.eval_strategy = "epoch"
                  THEN /\ log_history' = Append(log_history,
                                                [step |-> global_step,
                                                 eval_accuracy |-> out.metrics.accuracy])
                       /\ metric_call' = [done |-> TRUE,
                                          eval_pred |-> [logits |-> out.predictions,
                                                         labels |-> out.label_ids],
                                          result |-> out.metrics]
                  ELSE UNCHANGED <<log_history, metric_call>>
             /\ IF trainer.save_strategy = "epoch"
                  THEN checkpoint' = [done |-> TRUE, step |-> global_step,
                                      weights |-> m.weights,
                                      eval_accuracy |-> out.metrics.accuracy]
                  ELSE UNCHANGED checkpoint
  /\ ft_pc' = "epoch_done"
  /\ UNCHANGED <<small_dataset, tokenized_datasets, ft_pretrained, trainer, eval_results,
                 ft_predictions, global_step, baseline_seen>>
  /\ UNCHANGED trained_on
  /\ ft_frame

\* trainer.train() returning: load_best_model_at_end reloads the best
\* checkpoint, the only one there is.
FtTrainEnd ==
  /\ ft_pc = "epoch_done"
  /\ ft_model' = IF trainer.load_best_model_at_end /\ checkpoint.done
                   THEN [ft_model EXCEPT !.weights = checkpoint.weights]
                   ELSE ft_model
  /\ ft_pc' = "trained"
  /\ UNCHANGED <<small_dataset, tokenized_datasets, ft_pretrained, trainer, eval_results,
                 ft_predictions, metric_call, global_step, log_history, checkpoint,
                 baseline_seen>>
  /\ UNCHANGED trained_on
  /\ ft_frame

\* Section 7: eval_results = trainer.evaluate() on the fine-tuned model.
FtEvaluate ==
  /\ ft_pc = "trained"
  /\ LET m == eval_mode(ft_model)
         split == trainer.eval_dataset
     IN \E drops \in [DOMAIN split -> DropChoices(m)] :
          LET out == evaluation_loop(m, split, drops)
          IN /\ ft_model' = m
             /\ eval_results' = [done |-> TRUE, eval_accuracy |-> out.metrics.accuracy]
             /\ metric_call' = [done |-> TRUE,
                                eval_pred |-> [logits |-> out.predictions,
                                               labels |-> out.label_ids],
                                result |-> out.metrics]
  /\ ft_pc' = "evaluated"
  /\ UNCHANGED <<small_dataset, tokenized_datasets, ft_pretrained, trainer,
                 ft_predictions, global_step, log_history, checkpoint, baseline_seen>>
  /\ UNCHANGED trained_on
  /\ ft_frame

\* Section 8: predictions = trainer.predict(...), preds and labels for the
\* classification report and the confusion matrix.
FtPredict ==
  /\ ft_pc = "evaluated"
  /\ LET m == eval_mode(ft_model)
         split == tokenized_datasets.validation
     IN \E drops \in [DOMAIN split -> DropChoices(m)] :
          LET out == evaluation_loop(m, split, drops)
          IN /\ ft_model' = m
             /\ ft_predictions' = [done |-> TRUE, predictions |-> out.predictions,
                                   label_ids |-> out.label_ids,
                                   test_accuracy |-> out.metrics.accuracy]
             /\ metric_call' = [done |-> TRUE,
                                eval_pred |-> [logits |-> out.predictions,
                                               labels |-> out.label_ids],
                                result |-> out.metrics]
  /\ ft_pc' = "reported"
  /\ UNCHANGED <<small_dataset, tokenized_datasets, ft_pretrained, trainer, eval_results,
                 global_step, log_history, checkpoint, baseline_seen>>
  /\ UNCHANGED trained_on
  /\ ft_frame

NextFT ==
  \/ FtSample
  \/ FtTokenize
  \/ FtLoadModel
  \/ FtBaselineEvaluate
  \/ FtBaselinePredict
  \/ FtTrainBegin
  \/ FtTrainStep
  \/ FtEpochEnd
  \/ FtTrainEnd
  \/ FtEvaluate
  \/ FtPredict


\* ============================= 2a: the text preparation step on its own
\* The first statement of predict_word on a text.
PrepareTextOnce ==
  /\ prep_pc = "idle"
  /\ \E t \in PrepTexts :
       /\ prep_text' = t
       /\ prepared' = PrepareText(t)
  /\ prep_pc' = "prepared"
  /\ UNCHANGED prepared_again
  /\ prep_frame

\* The same statement on its own result: predict_word given a text that
\* already carries '[CLS] ' and ' [SEP]'.
PrepareTextAgain ==
  /\ prep_pc = "prepared"
  /\ prepared_again' = PrepareText(prepared)
  /\ prep_pc' = "again"
  /\ UNCHANGED <<prep_text, prepared>>
  /\ prep_frame

PrepareTextNext ==
  /\ prep_pc = "again"
  /\ prep_pc' = "idle"
  /\ prep_text' = <<>>
  /\ prepared' = <<>>
  /\ prepared_again' = <<>>
  /\ prep_frame

NextPrep ==
  \/ PrepareTextOnce
  \/ PrepareTextAgain
  \/ PrepareTextNext

\* ============================== the tokenization comparison: the notebook
\* Step 2: the DataFrame of reviews.
TokLoadDataset ==
  /\ tok_pc = "start"
  /\ df' \in Corpora
  /\ tok_pc' = "loaded"
  /\ UNCHANGED <<data_split, sp, va_call, results>>
  /\ tok_frame

\* Step 3: train_test_split.
TokSplit ==
  /\ tok_pc = "loaded"
  /\ \E perm \in PermSeqs(DOMAIN df) : data_split' = train_test_split(Len(df), perm)
  /\ tok_pc' = "data_split"
  /\ UNCHANGED <<df, sp, va_call, results>>
  /\ tok_frame

\* Step 4: the tokenizer definitions, the BPE training file and the training
\* of the BPE model.
TokTrainBpe ==
  /\ tok_pc = "data_split"
  /\ LET lines == bpe_train_file(df, data_split.X_train)
     IN sp' = [trained |-> TRUE,
               pieces |-> SentencePieceTrainer_train(lines),
               rows |-> {lines[k].row : k \in DOMAIN lines}]
  /\ tok_pc' = "ready"
  /\ UNCHANGED <<df, data_split, va_call, results>>
  /\ tok_frame

\* tokenize_word_level and tokenize_char_level return the name tokens, which
\* they never assign; tokenize_bpe encodes with the trained model.
apply_tokenizer(tokenizer, t) ==
  IF tokenizer = "tokenize_bpe"
    THEN [raised |-> "", tokens |-> sp_encode(sp.pieces, t)]
    ELSE [raised |-> "NameError", tokens |-> <<>>]

\* The calls of Step 6: the tokenizer and the tokenizer_name given together.
TokCalls ==
  {<<"tokenize_word_level", "Word-Level">>, <<"None", "Character-Level">>,
   <<"tokenize_bpe", "BPE">>}

\* vectorize_and_train(X_train, X_test, y_train, y_test, tokenizer,
\* tokenizer_name) and the results[...] assignment after it.
VectorizeAndTrain ==
  /\ tok_pc = "ready"
  /\ \E call \in TokCalls :
       LET tokenizer == call[1]
           tokenizer_name == call[2]
           X_train == data_split.X_train
           X_test == data_split.X_test
           y_train == [k \in DOMAIN X_train |-> sentiment_num(df[X_train[k]].sentiment)]
           y_test == [k \in DOMAIN X_test |-> sentiment_num(df[X_test[k]].sentiment)]
           char == tokenizer_name = "Character-Level"
           raised(X) == {k \in DOMAIN X :
                           apply_tokenizer(tokenizer, lower(df[X[k]].review)).raised # ""}
           feats(X) == IF char THEN [k \in DOMAIN X |-> char_analyzer(df[X[k]].review)]
                       ELSE [k \in DOMAIN X |->
                               default_analyzer(apply_tokenizer(tokenizer, lower(df[X[k]].review)).tokens)]
       IN IF ~char /\ raised(X_train) \cup raised(X_test) # {}
            THEN /\ va_call' = [done |-> TRUE, tokenizer_name |-> tokenizer_name,
                                raised |-> "NameError", fitted |-> <<>>]
                 /\ tok_pc' = "raised"
                 /\ UNCHANGED results
            ELSE \E vocabulary \in {fit_vocabulary(feats(X_train))} :
                 \E X_train_vec \in {transform(vocabulary, feats(X_train))} :
                 \E X_test_vec \in {transform(vocabulary, feats(X_test))} :
                 \E model \in {MultinomialNB_fit(X_train_vec, y_train)} :
                 \E y_pred \in {[k \in DOMAIN X_test_vec |->
                                   MultinomialNB_predict(model, X_test_vec[k])]} :
                 \E accuracy \in {accuracy_score(y_test, y_pred)} :
                 \E f1 \in {f1_score(y_test, y_pred)} :
                    /\ va_call' =
                         [done |-> TRUE, tokenizer_name |-> tokenizer_name, raised |-> "",
                          fitted |-> <<[op |-> "vectorizer.fit_transform", rows |-> RowSet(X_train)],
                                       [op |-> "vectorizer.transform", rows |-> RowSet(X_test)],
                                       [op |-> "model.fit", rows |-> RowSet(X_train)],
                                       [op |-> "model.predict", rows |-> RowSet(X_test)]>>,
                          vocabulary |-> vocabulary, model |-> model,
                          y_pred |-> y_pred, accuracy |-> accuracy, f1 |-> f1]
                    /\ results' = [n \in DOMAIN results \cup {tokenizer_name} |->
                                     IF n = tokenizer_name
                                       THEN [Accuracy |-> accuracy, F1 |-> f1]
                                       ELSE results[n]]
                    /\ UNCHANGED tok_pc
  /\ UNCHANGED <<df, data_split, sp>>
  /\ tok_frame

NextTok ==
  \/ TokLoadDataset
  \/ TokSplit
  \/ TokTrainBpe
  \/ VectorizeAndTrain
\* ============================================================ specifications
\* The masked-language-modeling notebook.
SpecMLM == Init /\ [][NextMLM]_vars

\* The next-sentence-prediction notebook.
SpecNSP == Init /\ [][NextNSP]_vars

\* The fine-tuning notebook.
SpecFT == Init /\ [][NextFT]_vars

\* The text preparation of predict_word, applied and applied again.
SpecPrep == Init /\ [][NextPrep]_vars

\* The tokenization-comparison notebook.
SpecTok == Init /\ [][NextTok]_vars
\* ================================================== claims on predict_word
\* A predict_word call has been made and has not been left behind yet.
InCall == pc \in {"tokenized", "asserted", "predicted", "ranked", "done", "raised"}

\* C1: for a sentence with exactly one mask placeholder, predict_word returns
\* a list of (token, probability) pairs whose length is the requested topn.
C1_ReturnsTopnPairs ==
  (pc = "done" /\ CountMask(arg_text) = 1)
    => (ret.returned /\ ~ret.isNone /\ Len(ret.value) = topn)

\* C2: with no mask placeholder in the sentence, predict_word fails at its
\* assertion: it never gets past it to invoke the model or to return.
C2_NoMaskFailsAtGuard ==
  (InCall /\ CountMask(arg_text) = 0) => pc \in {"tokenized", "raised"}

\* C3: with more than one mask placeholder in the sentence, predict_word
\* fails instead of going on to a prediction.
C3_SeveralMasksFail ==
  (InCall /\ CountMask(arg_text) > 1) => pc \in {"tokenized", "raised"}

\* C4: the candidates are in descending order of probability, the k-th
\* token is the token of the id whose logit is the k-th highest in the row at
\* masked_index, and every vocabulary id is ranked exactly once.
C4_RankedDescending ==
  pc = "ranked" =>
    LET row == PyIndex(predictions, masked_index)
    IN /\ \A k \in 1..(Len(Vocab) - 1) : predicted_probs[k] >= predicted_probs[k + 1]
       /\ \A k \in VocabIds :
            /\ predicted_tokens[k] = Vocab[predicted_inds[k]]
            /\ Cardinality({v \in VocabIds : row[v] > row[predicted_inds[k]]}) < k
            /\ Cardinality({v \in VocabIds : row[v] >= row[predicted_inds[k]]}) >= k
       /\ \A v \in VocabIds : Cardinality({k \in VocabIds : predicted_inds[k] = v}) = 1

\* A ranking read at a mask that was found, with two different probabilities.
C4_Witness ==
  /\ pc = "ranked"
  /\ masked_index >= 0
  /\ tokenized_text[masked_index + 1] = MASK
  /\ \E k \in 1..(Len(Vocab) - 1) : predicted_probs[k] > predicted_probs[k + 1]

\* C5 as stated: the rounded probabilities of the whole vocabulary sum to at
\* most 1.
C5_RoundedSumAtMostOne ==
  pc = "ranked" => SumSeq(predicted_probs) <= Unit

\* C5 amended: the rounded probabilities of the whole vocabulary sum to at
\* most 1 plus half a unit of the fourth decimal per vocabulary entry.
C5_RoundedSumWithinHalfUnits ==
  pc = "ranked" => 2 * SumSeq(predicted_probs) <= 2 * Unit + Len(Vocab)

\* A ranking whose rounded probabilities sum to more than 1.
C5_Witness ==
  pc = "ranked" /\ masked_index >= 0 /\ SumSeq(predicted_probs) > Unit

\* =================================================== claims on predict_nsp
\* C6: whatever the sentences and the logits, the value predict_nsp returns
\* lies in the closed interval [0, 1].
C6_ProbabilityInUnitInterval ==
  nsp_call.called =>
    /\ nsp_call.probability.den > 0
    /\ 0 <= nsp_call.probability.num
    /\ nsp_call.probability.num <= nsp_call.probability.den

\* A call whose two logits differ.
C6_Witness ==
  /\ nsp_call.called
  /\ nsp_call.logits[1] # nsp_call.logits[2]
  /\ nsp_call.sentence1 # nsp_call.sentence2

\* C7: predict_nsp returns the normalised probability of class 0: it is above
\* 1/2 exactly when logit 0 is above logit 1, and with the probability of
\* class 1, exp(logit 1) over the same denominator, it adds up to 1.
C7_FirstClassProbability ==
  nsp_call.called =>
    LET l == nsp_call.logits
        p == nsp_call.probability
    IN /\ (2 * p.num > p.den) <=> (l[1] > l[2])
       /\ p.den = Exp(l[1]) + Exp(l[2])
       /\ p.num + Exp(l[2]) = p.den

\* A call where the first class wins.
C7_Witness ==
  /\ nsp_call.called
  /\ nsp_call.logits[1] > nsp_call.logits[2]
  /\ 2 * nsp_call.probability.num > nsp_call.probability.den

\* C8: a call with the arguments of the notebook's first call returns what
\* the first call returned, whatever calls came in between, and model and
\* tokenizer stay as the loading cell left them.
C8_Pure ==
  nsp_pc = "ready" =>
    /\ <<nsp_model, nsp_tokenizer>> = nsp_loaded
    /\ (nsp_call.called
          /\ nsp_call.sentence1 = probability1.sentence1
          /\ nsp_call.sentence2 = probability1.sentence2)
         => nsp_call.probability = probability1.probability

\* The first call's arguments given again after a call with other arguments.
C8_Witness ==
  /\ nsp_call.called
  /\ nsp_call.interleaved
  /\ nsp_call.sentence1 = probability1.sentence1
  /\ nsp_call.sentence2 = probability1.sentence2
  /\ nsp_call.sentence1 # nsp_call.sentence2

\* ============================================ claims on the fine-tuning run
\* C9: before any training, trainer.evaluate() (run once or again) and
\* trainer.predict() measure the same accuracy on the validation sample, and
\* the weights are still the pre-trained ones.
C9_BaselineRepeatable ==
  /\ ft_pc \in {"baseline_evaluated", "baseline_predicted"}
       => /\ Cardinality(baseline_seen) <= 1
          /\ ft_model.weights = ft_pretrained.weights
  /\ ft_pc = "baseline_predicted"
       => eval_results.eval_accuracy = ft_predictions.test_accuracy

\* Both baseline measurements made, on a model that is right on some
\* validation examples and wrong on others.
C9_Witness ==
  /\ ft_pc = "baseline_predicted"
  /\ eval_results.eval_accuracy.num > 0
  /\ eval_results.eval_accuracy.num < eval_results.eval_accuracy.den

\* C10: compute_metrics returns the number of examples whose larger logit
\* (class 0 on a tie) is the one of the ground-truth label, over the number
\* of examples: a value in [0, 1].
C10_ExactMatchAccuracy ==
  metric_call.done =>
    LET logits == metric_call.eval_pred.logits
        labels == metric_call.eval_pred.labels
        acc == metric_call.result.accuracy
    IN /\ acc.den = Len(labels)
       /\ acc.den > 0
       /\ acc.num = Cardinality({k \in DOMAIN labels :
                                   labels[k] = IF logits[k][2] > logits[k][1] THEN 1 ELSE 0})
       /\ 0 <= acc.num
       /\ acc.num <= acc.den

\* A metric computed on a batch with a tie, some hits and some misses.
C10_Witness ==
  /\ metric_call.done
  /\ \E k \in DOMAIN metric_call.eval_pred.logits :
       metric_call.eval_pred.logits[k][1] = metric_call.eval_pred.logits[k][2]
  /\ metric_call.result.accuracy.num > 0
  /\ metric_call.result.accuracy.num < metric_call.result.accuracy.den


\* C11: the steps of the fine-tuning run come in a fixed order.  Training
\* never starts before both baseline measurements are made; once training
\* has returned it has taken the optimizer steps of exactly one pass over the
\* training sample and evaluated once, at the end of that pass; and the
\* evaluation reported afterwards is one of the model training left behind.
C11_FixedOrder ==
  LET n == Len(tokenized_datasets.train)
      after_training == ft_pc \in {"trained", "evaluated", "reported"}
  IN /\ (ft_pc \in {"training", "epoch_done"} \/ after_training \/ global_step > 0)
          => /\ baseline_seen # {}
             /\ eval_results.done
             /\ ft_predictions.done
     /\ global_step * per_device_train_batch_size < n + per_device_train_batch_size
     /\ ft_pc \in {"start", "sampled", "tokenized", "loaded", "baseline_evaluated",
                   "baseline_predicted"}
          => global_step = 0 /\ log_history = <<>> /\ ~checkpoint.done
     /\ (ft_pc = "epoch_done" \/ after_training)
          => /\ global_step * per_device_train_batch_size >= n
             /\ Len(log_history) = 1
             /\ log_history[1].step = global_step
             /\ checkpoint.done
     /\ ft_pc \in {"evaluated", "reported"}
          => /\ ~ft_model.training
             /\ ft_model.weights = checkpoint.weights
             /\ eval_results.eval_accuracy
                  = evaluation_loop(ft_model, tokenized_datasets.validation,
                                    [k \in DOMAIN tokenized_datasets.validation |-> FALSE]
                                   ).metrics.accuracy

\* The evaluation after a training run that changed the weights and the
\* accuracy.
C11_Witness ==
  /\ ft_pc = "evaluated"
  /\ global_step = 1
  /\ ft_model.weights # ft_pretrained.weights
  /\ eval_results.eval_accuracy \notin baseline_seen

\* C12 as stated: once the model is loaded nothing changes its weights, so
\* in the fine-tuning notebook the classifier keeps the weights
\* from_pretrained gave it.
C12_ReadOnlyAfterLoad ==
  ft_pretrained # NoModel =>
    /\ ft_model.weights = ft_pretrained.weights
    /\ tokenize_split(small_dataset.train) = tokenized_datasets.train

\* C12 amended: in the fine-tuning notebook the weights of the loaded model
\* are changed by the optimizer steps of trainer.train() and by nothing else:
\* trainer.evaluate(), trainer.predict(), the evaluation at the end of the
\* epoch and the reload of the best checkpoint leave them as they were; and
\* the tokenized samples, the tokenizer's output, never change after loading.
C12_WeightsChangeOnlyInTraining ==
  [][ft_pretrained # NoModel =>
       /\ ft_model'.weights # ft_model.weights
            => /\ ft_pc = "training"
               /\ ft_pc' = "training"
               /\ global_step' = global_step + 1
       /\ ft_pretrained' = ft_pretrained
       /\ tokenized_datasets' = tokenized_datasets]_vars

\* Training has changed the weights, and the evaluation after it has run.
C12_Witness ==
  /\ ft_pc = "evaluated"
  /\ ft_model.weights # ft_pretrained.weights
  /\ eval_results.done

C14_WithinContext ==
  indexed_tokens # <<>> => Len(indexed_tokens) <= MaxContext

MaskPositions == {k \in DOMAIN tokenized_text : tokenized_text[k] = MASK}

\* C16: when the tokenized text has a '[MASK]' token, masked_index is the
\* position of the first one, however many there are; the assertion does not
\* fail, the model is given the whole sequence and the ranking is read from
\* the row of that first position.
C16_FirstMaskWins ==
  (MaskPositions # {} /\ pc \in {"asserted", "predicted", "ranked", "raised"}) =>
    /\ masked_index + 1 \in MaskPositions
    /\ \A k \in MaskPositions : masked_index + 1 <= k
    /\ err \notin {"AssertionError", "NameError"}
    /\ pc = "ranked"
         => predicted_probs = rounded_probs(predictions[masked_index + 1], predicted_inds)

\* A ranking made for a text with two '[MASK]' tokens.
C16_Witness ==
  /\ pc = "ranked"
  /\ Cardinality(MaskPositions) = 2
  /\ CountMask(arg_text) = 2
  /\ \E k \in MaskPositions : k > masked_index + 1

\* C17: for a text that does not start with '[CLS]' and does not end with
\* '[SEP]', the prepared text is '[CLS] ' + text + ' [SEP]', the text itself
\* unchanged in between.
C17_OnlyAddsSpecialTokens ==
  (/\ pc = "tokenized"
   /\ ~StartsWith(arg_text, CLS)
   /\ ~(Len(arg_text) >= Len(SEP) /\ Drop(arg_text, Len(arg_text) - Len(SEP)) = SEP))
    => text = CLS \o SPACE \o arg_text \o SPACE \o SEP

\* C18: for a text with exactly one '[MASK]', at its start and end included,
\* the prepared text has exactly one '[MASK]' and the tokenized text exactly
\* one '[MASK]' token.
C18_MaskPreserved ==
  (pc = "tokenized" /\ CountMask(arg_text) = 1)
    => (CountMask(text) = 1 /\ Cardinality(MaskPositions) = 1)

\* C19: preparing an already prepared text changes nothing, whatever the
\* original text was, a text whose stripped core is empty included.
C19_PrepareIdempotent ==
  prep_pc = "again" => prepared_again = prepared

\* A text of letters that the stripping empties, prepared twice.
C19_Witness ==
  /\ prep_pc = "again"
  /\ prep_text # <<>>
  /\ \A k \in DOMAIN prep_text : prep_text[k] # " "
  /\ prepared = CLS \o SPACE \o SPACE \o SEP
  /\ prepared_again = prepared

\* The tokenized examples of both samples.
TokenizedExamples ==
  {tokenized_datasets.train[k] : k \in DOMAIN tokenized_datasets.train}
    \cup {tokenized_datasets.validation[k] : k \in DOMAIN tokenized_datasets.validation}

\* C20: every tokenized example has exactly 128 token ids (and as many mask
\* entries), whatever the length of its sentence: a short sentence is
\* padded with [PAD] after its [SEP], a long one is cut and still ends with
\* [SEP]; so every sequence the model is given, in evaluation and in
\* training, is within the model's 512 positions.
C20_FixedLength ==
  /\ \A ex \in TokenizedExamples :
       /\ Len(ex.input_ids) = 128
       /\ Len(ex.attention_mask) = 128
       /\ Len(ex.input_ids) <= max_position_embeddings
       /\ ex.input_ids[1] = FtTokenId(CLS)
       /\ \E n \in 2..128 :
            /\ ex.input_ids[n] = FtTokenId(SEP)
            /\ \A k \in 1..128 :
                 /\ ex.attention_mask[k] = IF k <= n THEN 1 ELSE 0
                 /\ k > n => ex.input_ids[k] = FtTokenId(PAD)
  /\ metric_call.done
       => \A k \in DOMAIN trainer.eval_dataset :
            Len(trainer.eval_dataset[k].input_ids) <= max_position_embeddings
  /\ global_step > 0
       => \A k \in DOMAIN trainer.train_dataset :
            Len(trainer.train_dataset[k].input_ids) <= max_position_embeddings

\* An evaluation over a sample with a sentence that was cut and one that
\* was padded.
C20_Witness ==
  /\ metric_call.done
  /\ \E k \in DOMAIN small_dataset.validation :
       /\ Len(tokenize(small_dataset.validation[k].sentence)) > 126
       /\ tokenized_datasets.validation[k].input_ids[128] = FtTokenId(SEP)
  /\ \E ex \in TokenizedExamples : ex.attention_mask[128] = 0

\* sample is made of n different rows of split.
DrawnWithoutRepetition(sample, split, n) ==
  /\ Len(sample) = n
  /\ \E p \in [1..n -> DOMAIN split] :
       /\ \A a, b \in 1..n : a # b => p[a] # p[b]
       /\ \A k \in 1..n : sample[k] = split[p[k]]

\* C21: the training sample is TrainSize different rows of the train split
\* and the validation sample EvalSize different rows of the validation split;
\* the optimizer steps consume the tokenized training sample, row by row, and
\* nothing else; and every accuracy, before and after training, is computed
\* on the whole tokenized validation sample.
C21_ValidationHeldOut ==
  ft_pc \notin {"start", "raised"} =>
    /\ DrawnWithoutRepetition(small_dataset.train, dataset.train, TrainSize)
    /\ DrawnWithoutRepetition(small_dataset.validation, dataset.validation, EvalSize)
    /\ Len(trained_on) <= TrainSize
    /\ \A k \in DOMAIN trained_on :
         trained_on[k] = tokenize_split(small_dataset.train)[k]
    /\ ft_pc \in {"epoch_done", "trained", "evaluated", "reported"}
         => trained_on = tokenize_split(small_dataset.train)
    /\ trainer.created
         => trainer.eval_dataset = tokenize_split(small_dataset.validation)
    /\ metric_call.done
         => /\ metric_call.eval_pred.labels
                 = [k \in 1..EvalSize |-> small_dataset.validation[k].label]
            /\ Len(metric_call.eval_pred.logits) = EvalSize
            /\ metric_call.result.accuracy.den = EvalSize
    /\ eval_results.done => eval_results.eval_accuracy.den = EvalSize

\* The accuracy after a training run that consumed the whole training
\* sample, with a baseline accuracy measured before it, and a validation row
\* the training never saw.
C21_Witness ==
  /\ ft_pc = "evaluated"
  /\ trained_on # <<>>
  /\ trained_on = tokenized_datasets.train
  /\ baseline_seen # {}
  /\ \E k \in DOMAIN tokenized_datasets.validation :
       \A j \in DOMAIN trained_on : trained_on[j] # tokenized_datasets.validation[k]

\* C22: with eval_strategy and save_strategy 'epoch', one epoch and
\* load_best_model_at_end, trainer.train() evaluates once and saves one
\* checkpoint, both at the step count of the last optimizer step and not
\* before; and the accuracy trainer.evaluate() reports afterwards is the
\* accuracy of that evaluation.
C22_OneEvaluationOneCheckpoint ==
  /\ ft_pc = "training" => (log_history = <<>> /\ ~checkpoint.done)
  /\ ft_pc \in {"epoch_done", "trained", "evaluated", "reported"}
       => /\ trainer.eval_strategy = "epoch"
          /\ trainer.save_strategy = "epoch"
          /\ trainer.load_best_model_at_end
          /\ Len(log_history) = 1
          /\ checkpoint.done
          /\ log_history[1].step = global_step
          /\ checkpoint.step = global_step
          /\ Len(trained_on) = Len(trainer.train_dataset)
          /\ checkpoint.eval_accuracy = log_history[1].eval_accuracy
  /\ ft_pc \in {"evaluated", "reported"}
       => eval_results.eval_accuracy = log_history[1].eval_accuracy

\* The evaluation after training reporting the end-of-epoch accuracy, which
\* is not the baseline accuracy.
C22_Witness ==
  /\ ft_pc = "evaluated"
  /\ Len(log_history) = 1
  /\ eval_results.eval_accuracy = log_history[1].eval_accuracy
  /\ eval_results.eval_accuracy \notin baseline_seen
  /\ checkpoint.weights # ft_pretrained.weights

\* ------------------------------------------------------------------ C23
\* The features a finished call of vectorize_and_train extracted from the
\* review of row r, by the branch its tokenizer_name selects.
FeaturesOfRow(r) ==
  IF va_call.tokenizer_name = "Character-Level"
    THEN {<<Lower(df[r].review[k])>> : k \in DOMAIN df[r].review}
    ELSE {tok \in {sp_encode(sp.pieces, lower(df[r].review))[j] :
                     j \in DOMAIN sp_encode(sp.pieces, lower(df[r].review))} :
            Len(tok) >= 2}

\* C23: test data never influences fitting. The BPE model is trained on the
\* rows of X_train and on no row of X_test, so its pieces are those of the
\* training reviews; in every finished call of vectorize_and_train, whatever
\* its tokenizer_name, the vectorizer and the classifier are fitted on the
\* training rows only, the test rows are only transformed and predicted,
\* and the fitted vocabulary and class counts are those of the training
\* rows.
C23_NoTestLeak ==
  LET train == RowSet(data_split.X_train)
      test == RowSet(data_split.X_test)
  IN /\ sp.trained =>
          /\ sp.rows = train
          /\ sp.rows \cap test = {}
          /\ sp.pieces = UNION {AdjacentPairs(df[r].review) : r \in train}
     /\ va_call.done =>
          /\ va_call.raised # "" => va_call.fitted = <<>>
          /\ \A k \in DOMAIN va_call.fitted :
               IF va_call.fitted[k].op \in {"vectorizer.fit_transform", "model.fit"}
                 THEN va_call.fitted[k].rows = train /\ va_call.fitted[k].rows \cap test = {}
                 ELSE /\ va_call.fitted[k].op \in {"vectorizer.transform", "model.predict"}
                      /\ va_call.fitted[k].rows = test
          /\ va_call.raised = "" =>
               /\ va_call.vocabulary = UNION {FeaturesOfRow(r) : r \in train}
               /\ va_call.model.vocabulary = va_call.vocabulary
               /\ va_call.model.class_count[0] + va_call.model.class_count[1]
                    = Cardinality(train)
               /\ \A c \in {0, 1} :
                    va_call.model.class_count[c]
                      = Cardinality({r \in train : sentiment_num(df[r].sentiment) = c})

\* A BPE call has finished on a split whose test review holds a pair of
\* characters and a feature that no training review holds: neither is a
\* piece of the BPE model nor in the fitted vocabulary.
C23_Witness ==
  /\ sp.trained
  /\ va_call.done
  /\ va_call.tokenizer_name = "BPE"
  /\ va_call.raised = ""
  /\ va_call.vocabulary # {}
  /\ \E r \in RowSet(data_split.X_test) :
       /\ AdjacentPairs(df[r].review) # {}
       /\ AdjacentPairs(df[r].review) \cap sp.pieces = {}
       /\ \A q \in RowSet(data_split.X_train) : df[q].review # df[r].review
=============================================================================
